---- MODULE Spec2Model ----
(***************************************************************************)
(* StickPlotItem (pyqtgraph/graphicsItems/StickPlotItem.py): a graphics    *)
(* item holding an options record, a cached QPicture and four bounding     *)
(* scalars.  The item's methods are operators on the record                *)
(*   self = [opts, boundingCorners, picture]                               *)
(* and every method call is one action of the state machine.               *)
(*                                                                         *)
(* Numbers are fixed-point with one binary fractional digit: the integer n *)
(* of the model stands for the Python number n/2.  The data handed to the  *)
(* item are whole numbers (even n), so that height/2 is exact.             *)
(***************************************************************************)
EXTENDS Integers, Sequences, FiniteSets

\* longest data array handed to the item
MaxLen == 2

(***************************************************************************)
(* Python values.  k is the dynamic type: "none" (None), "py" (int/float), *)
(* "np" (numpy scalar), "list" (list), "arr" (numpy.ndarray), "str".       *)
(***************************************************************************)
None == [k |-> "none", v |-> 0, a |-> <<>>, s |-> ""]
Py(n) == [k |-> "py", v |-> n, a |-> <<>>, s |-> ""]
Np(n) == [k |-> "np", v |-> n, a |-> <<>>, s |-> ""]
List(q) == [k |-> "list", v |-> 0, a |-> q, s |-> ""]
Arr(q) == [k |-> "arr", v |-> 0, a |-> q, s |-> ""]
Str(t) == [k |-> "str", v |-> 0, a |-> <<>>, s |-> t]

\* a keyword that is not passed in **kargs
Absent == [k |-> "absent", v |-> 0, a |-> <<>>, s |-> ""]

Keys == {"name", "x", "y", "y0", "y1", "height", "pen", "pens"}

\* the dict built in __init__
DefaultOpts == [key \in Keys |-> None]

\* **kargs as a dict: the keywords that are passed, with their values
Kw(f) == [key \in {c \in DOMAIN f : f[c] # Absent} |-> f[key]]

\* dict.update
Update(d, kw) ==
  [key \in DOMAIN d \cup DOMAIN kw |-> IF key \in DOMAIN kw THEN kw[key] ELSE d[key]]

\* self.picture: None, or a QPicture with the lines recorded into it
NoPicture == [none |-> TRUE, lines |-> <<>>]
QPicture(l) == [none |-> FALSE, lines |-> l]

ZeroCorners == <<0, 0, 0, 0>>

(***************************************************************************)
(* numpy / Python arithmetic on the values                                 *)
(***************************************************************************)
RECURSIVE SeqMin(_)
SeqMin(q) ==
  IF Len(q) = 1 THEN q[1]
  ELSE LET m == SeqMin(Tail(q)) IN IF q[1] < m THEN q[1] ELSE m

RECURSIVE SeqMax(_)
SeqMax(q) ==
  IF Len(q) = 1 THEN q[1]
  ELSE LET m == SeqMax(Tail(q)) IN IF q[1] > m THEN q[1] ELSE m

\* np.isscalar
isscalar(val) == val.k \in {"py", "np", "str"}

\* the local function asarray of drawPicture
asarray(val) ==
  IF val.k = "none" \/ isscalar(val) \/ val.k = "arr" THEN val
  ELSE Arr(val.a)

\* outcome of val.min() / val.max(): only numpy objects have the methods,
\* and a zero-size array has no minimum
ReduceErr(val) ==
  IF val.k \notin {"np", "arr"} THEN "AttributeError"
  ELSE IF val.k = "arr" /\ Len(val.a) = 0 THEN "ValueError"
  ELSE "ok"

min(val) == IF val.k = "np" THEN val.v ELSE SeqMin(val.a)
max(val) == IF val.k = "np" THEN val.v ELSE SeqMax(val.a)

\* outcome of len(val); x is never handed over as a str
LenErr(val) == IF val.k \in {"arr", "list"} THEN "ok" ELSE "TypeError"

\* val / 2
Div2(val) ==
  [k |-> val.k, v |-> val.v \div 2,
   a |-> [i \in DOMAIN val.a |-> val.a[i] \div 2], s |-> ""]

\* outcome of l - r/2 and l + r/2: a str operand is a TypeError, two
\* arrays must have equal lengths unless one of them has length 1
ArithErr(l, r) ==
  IF r.k = "str" \/ l.k = "str" THEN "TypeError"
  ELSE IF l.k = "arr" /\ r.k = "arr" /\ Len(l.a) # Len(r.a)
          /\ Len(l.a) # 1 /\ Len(r.a) # 1 THEN "ValueError"
  ELSE "ok"

\* element i of an operand under numpy broadcasting
Bc(val, i) ==
  IF val.k = "arr" THEN (IF Len(val.a) = 1 THEN val.a[1] ELSE val.a[i]) ELSE val.v

\* length of the broadcast result of two operands, one of them an array
BcLen(l, r) ==
  IF l.k # "arr" THEN Len(r.a)
  ELSE IF r.k # "arr" THEN Len(l.a)
  ELSE IF Len(l.a) = 1 THEN Len(r.a)
  ELSE Len(l.a)

\* l + sgn * r, elementwise
Arith(l, r, sgn) ==
  IF l.k = "arr" \/ r.k = "arr"
  THEN Arr([i \in 1..BcLen(l, r) |-> Bc(l, i) + sgn * Bc(r, i)])
  ELSE IF l.k = "np" \/ r.k = "np" THEN Np(l.v + sgn * r.v)
  ELSE Py(l.v + sgn * r.v)

(***************************************************************************)
(* The methods of StickPlotItem.  A method that can raise returns the item *)
(* as the raise leaves it together with err, the exception ("ok": none).   *)
(***************************************************************************)

\* setOpts without "self.picture = None"
setOpts_keepPicture(self, kw) ==
  [self EXCEPT !.opts = Update(self.opts, kw)]

\* update() and informViewBoundsChanged() only notify the scene and the view
setOpts(self, kw) ==
  [self EXCEPT !.opts = Update(self.opts, kw), !.picture = NoPicture]

\* __init__(**opts)
init(kw) ==
  setOpts([opts |-> DefaultOpts, boundingCorners |-> ZeroCorners,
           picture |-> NoPicture], kw)

\* the if / elif / elif with y0 and y1 tested before y and height
Ends_y0y1First(y, y0, y1, height) ==
  IF y0.k # "none" /\ y1.k # "none"
  THEN [err |-> "ok", y0 |-> y0, y1 |-> y1]
  ELSE IF y.k # "none" /\ height.k # "none"
  THEN IF ArithErr(y, height) # "ok"
       THEN [err |-> ArithErr(y, height), y0 |-> y0, y1 |-> y1]
       ELSE [err |-> "ok", y0 |-> Arith(y, Div2(height), -1),
             y1 |-> Arith(y, Div2(height), 1)]
  ELSE IF y.k = "none" /\ height.k # "none"
  THEN [err |-> "ok", y0 |-> Py(0), y1 |-> height]
  ELSE IF y0.k = "none" /\ y1.k = "none"
  THEN [err |-> "Exception", y0 |-> y0, y1 |-> y1]
  ELSE [err |-> "ok", y0 |-> y0, y1 |-> y1]

\* the if / elif / elif that fixes the lower and upper ends y0, y1
Ends(y, y0, y1, height) ==
  IF y.k # "none" /\ height.k # "none"
  THEN IF ArithErr(y, height) # "ok"
       THEN [err |-> ArithErr(y, height), y0 |-> y0, y1 |-> y1]
       ELSE [err |-> "ok", y0 |-> Arith(y, Div2(height), -1),
             y1 |-> Arith(y, Div2(height), 1)]
  ELSE IF y.k = "none" /\ height.k # "none"
  THEN [err |-> "ok", y0 |-> Py(0), y1 |-> height]
  ELSE IF y0.k = "none" /\ y1.k = "none"
  THEN [err |-> "Exception", y0 |-> y0, y1 |-> y1]
  ELSE [err |-> "ok", y0 |-> y0, y1 |-> y1]

\* pens[i], y0[i] and y1[i] of one pass of the for loop (i counts from 1)
LineErr(x, y0, y1, pens, i) ==
  IF pens.k # "none" /\ pens.k \notin {"list", "arr"} THEN "TypeError"
  ELSE IF pens.k # "none" /\ i > Len(pens.a) THEN "IndexError"
  ELSE IF ~isscalar(y0) /\ i > Len(y0.a) THEN "IndexError"
  ELSE IF ~isscalar(y1) /\ i > Len(y1.a) THEN "IndexError"
  ELSE "ok"

\* QLineF(x0, y_lo, x0, y_up)
QLineF(x, y0, y1, i) ==
  LET x0 == x.a[i]
      y_lo == IF isscalar(y0) THEN y0.v ELSE y0.a[i]
      y_up == IF isscalar(y1) THEN y1.v ELSE y1.a[i]
  IN <<x0, y_lo, x0, y_up>>

\* the for loop from pass i on, lines being the lines drawn so far
RECURSIVE DrawLines(_, _, _, _, _, _)
DrawLines(x, y0, y1, pens, i, lines) ==
  IF i > Len(x.a) THEN [lines |-> lines, err |-> "ok"]
  ELSE IF LineErr(x, y0, y1, pens, i) # "ok"
  THEN [lines |-> lines, err |-> LineErr(x, y0, y1, pens, i)]
  ELSE DrawLines(x, y0, y1, pens, i + 1, Append(lines, QLineF(x, y0, y1, i)))

\* prepareGeometryChange() only notifies the scene
drawPicture(self) ==
  LET s0 == [self EXCEPT !.picture = QPicture(<<>>)]
      pens == self.opts["pens"]
      x == asarray(self.opts["x"])
      e == Ends(asarray(self.opts["y"]), asarray(self.opts["y0"]),
                asarray(self.opts["y1"]), asarray(self.opts["height"]))
      s1 == [s0 EXCEPT !.boundingCorners = ZeroCorners]
  IN
  IF e.err # "ok" THEN [self |-> s0, err |-> e.err]
  ELSE IF LenErr(x) # "ok" THEN [self |-> s1, err |-> LenErr(x)]
  ELSE IF Len(x.a) = 0 THEN [self |-> s1, err |-> "ok"]
  ELSE
    LET s2 == [[s1 EXCEPT !.boundingCorners[1] = min(x)]
                   EXCEPT !.boundingCorners[1] = max(x)]
        s3 == [s2 EXCEPT !.boundingCorners[2] = min(e.y0)]
        s4 == [s3 EXCEPT !.boundingCorners[4] = max(e.y1)]
        d == DrawLines(x, e.y0, e.y1, pens, 1, <<>>)
    IN
    IF ReduceErr(e.y0) # "ok" THEN [self |-> s2, err |-> ReduceErr(e.y0)]
    ELSE IF ReduceErr(e.y1) # "ok" THEN [self |-> s3, err |-> ReduceErr(e.y1)]
    ELSE [self |-> [s4 EXCEPT !.picture = QPicture(d.lines)], err |-> d.err]

\* the "if self.picture is None: self.drawPicture()" of the three queries;
\* draw is the outcome of the drawPicture run, "idle" when it did not run
Rebuild(self) ==
  IF self.picture.none
  THEN LET r == drawPicture(self) IN [self |-> r.self, err |-> r.err, draw |-> r.err]
  ELSE [self |-> self, err |-> "ok", draw |-> "idle"]

\* what a method returns
NoRet == [k |-> "none", val |-> None, rect |-> ZeroCorners, lines |-> <<>>]

\* QRectF(left, top, width, height)
QRectF(left, top, width, height) ==
  [k |-> "rect", val |-> None, rect |-> <<left, top, width, height>>, lines |-> <<>>]

\* paint without the "if self.picture is None" test
paint_redraw(self) ==
  LET d == drawPicture(self) IN
  IF d.err # "ok" THEN [self |-> d.self, err |-> d.err, draw |-> d.err, ret |-> NoRet]
  ELSE [self |-> d.self, err |-> "ok", draw |-> d.err,
        ret |-> [NoRet EXCEPT !.k = "played", !.lines = d.self.picture.lines]]

\* paint: picture.play(p) replays the recorded lines on the painter
paint(self) ==
  LET r == Rebuild(self) IN
  IF r.err # "ok" THEN [self |-> r.self, err |-> r.err, draw |-> r.draw, ret |-> NoRet]
  ELSE [self |-> r.self, err |-> "ok", draw |-> r.draw,
        ret |-> [NoRet EXCEPT !.k = "played", !.lines = r.self.picture.lines]]

\* shape: self._shape is assigned nowhere in the class
shape(self) ==
  LET r == Rebuild(self) IN
  IF r.err # "ok" THEN [self |-> r.self, err |-> r.err, draw |-> r.draw, ret |-> NoRet]
  ELSE [self |-> r.self, err |-> "AttributeError", draw |-> r.draw, ret |-> NoRet]

boundingRect(self) ==
  LET r == Rebuild(self)
      c == r.self.boundingCorners
  IN
  IF r.err # "ok" THEN [self |-> r.self, err |-> r.err, draw |-> r.draw, ret |-> NoRet]
  ELSE [self |-> r.self, err |-> "ok", draw |-> r.draw,
        ret |-> QRectF(c[1], c[2], c[3], c[4])]

\* the value each keyword of setData ends up under
setDataOpts(kargs) ==
  LET has(c) == c \in DOMAIN kargs
      x == IF has("x") THEN kargs["x"] ELSE None
      h1 == IF has("y") THEN kargs["y"] ELSE None
      h2 == IF has("y0") THEN kargs["y0"] ELSE h1
      h3 == IF has("y1") THEN kargs["y1"] ELSE h2
      h4 == IF has("height") THEN kargs["height"] ELSE h3
      h5 == IF has("pen") THEN kargs["pen"] ELSE h4
  IN [name |-> None, x |-> x, y |-> None, y0 |-> None, y1 |-> None,
      height |-> h5, pen |-> None, pens |-> None]

setData(self, kargs) == setOpts(self, setDataOpts(kargs))

name(self) == [NoRet EXCEPT !.k = "name", !.val = self.opts["name"]]

(***************************************************************************)
(* The data handed to the item                                             *)
(***************************************************************************)
SeqOf(F(_), n) == [i \in 1..n |-> F(i)]

XA(i) == 2 * (((3 * i) % 5) - 2)
XB(i) == 2 * (3 - i)
YC(i) == 2 * (i - 2)
HT(i) == 2 * (i % 3)
LO(i) == 2 * (((2 * i) % 3) - 1)
UP(i) == 2 * ((3 * (i - 1)) % 5)
PN(i) == i

Lens == 0..MaxLen

\* keyword values of the drawing specification
DX == {Absent, Py(4)} \cup {List(SeqOf(XA, n)) : n \in Lens}
        \cup {List(SeqOf(XB, n)) : n \in Lens}
DY == {Absent, Py(2), Np(2)} \cup {Arr(SeqOf(YC, n)) : n \in Lens}
DHeight == {Absent, Py(4), Np(4)} \cup {List(SeqOf(HT, n)) : n \in Lens}
DY0 == {Absent, Py(0), Np(-2)} \cup {Arr(SeqOf(LO, n)) : n \in Lens}
DY1 == {Absent, Py(2), Np(6)} \cup {Arr(SeqOf(UP, n)) : n \in Lens}
DPens == {Absent, List(SeqOf(PN, 1)), List(SeqOf(PN, MaxLen))}

\* keyword values of the life-cycle specification
SX == {Absent, List(<<>>), List(SeqOf(XA, MaxLen))}
SY == {Absent, Arr(SeqOf(YC, MaxLen))}
SHeight == {Absent, List(SeqOf(HT, MaxLen))}
SY0 == {Absent, Arr(SeqOf(LO, MaxLen))}
SY1 == {Absent, Arr(SeqOf(UP, MaxLen))}
SPen == {Absent, Str("r")}
SPens == {Absent}
SName == {Absent, Str("a")}

KwOf(vname, vx, vy, vy0, vy1, vheight, vpen, vpens) ==
  Kw([name |-> vname, x |-> vx, y |-> vy, y0 |-> vy0, y1 |-> vy1,
      height |-> vheight, pen |-> vpen, pens |-> vpens])

(***************************************************************************)
(* The state machine                                                       *)
(***************************************************************************)
VARIABLES
  opts,             \* self.opts
  boundingCorners,  \* self.boundingCorners
  picture,          \* self.picture
  lastOp,           \* the method called last
  err,              \* the exception it raised, "ok" if none
  ret,              \* what it returned
  draws,            \* runs of drawPicture since the last options update
  drawErr,          \* outcome of the last of them, "idle" if there was none
  initName,         \* the name keyword of __init__
  renamed           \* a later setOpts passed a name keyword

vars == <<opts, boundingCorners, picture, lastOp, err, ret, draws, drawErr,
          initName, renamed>>

self == [opts |-> opts, boundingCorners |-> boundingCorners, picture |-> picture]

Store(s) ==
  /\ opts' = s.opts
  /\ boundingCorners' = s.boundingCorners
  /\ picture' = s.picture

\* StickPlotItem(**kw)
Construct(kw) ==
  /\ opts = init(kw).opts
  /\ boundingCorners = init(kw).boundingCorners
  /\ picture = init(kw).picture
  /\ lastOp = "__init__"
  /\ err = "ok"
  /\ ret = NoRet
  /\ draws = 0
  /\ drawErr = "idle"
  /\ initName = IF "name" \in DOMAIN kw THEN kw["name"] ELSE None
  /\ renamed = FALSE

Init ==
  \E vname \in SName, vx \in SX, vy \in SY, vy0 \in SY0, vy1 \in SY1,
     vheight \in SHeight, vpen \in SPen, vpens \in SPens :
    Construct(KwOf(vname, vx, vy, vy0, vy1, vheight, vpen, vpens))

InitDraw ==
  \E vx \in DX, vy \in DY, vy0 \in DY0, vy1 \in DY1, vheight \in DHeight,
     vpens \in DPens :
    Construct(KwOf(Absent, vx, vy, vy0, vy1, vheight, Absent, vpens))

\* a call of paint, shape or boundingRect with result r
Query(r, op) ==
  /\ Store(r.self)
  /\ lastOp' = op
  /\ err' = r.err
  /\ ret' = r.ret
  /\ draws' = IF r.draw = "idle" THEN draws ELSE draws + 1
  /\ drawErr' = IF r.draw = "idle" THEN drawErr ELSE r.draw
  /\ UNCHANGED <<initName, renamed>>

Paint == Query(paint(self), "paint")

Shape == Query(shape(self), "shape")

BoundingRect == Query(boundingRect(self), "boundingRect")

Name ==
  /\ lastOp' = "name"
  /\ err' = "ok"
  /\ ret' = name(self)
  /\ UNCHANGED <<opts, boundingCorners, picture, draws, drawErr, initName, renamed>>

\* a call of setOpts or setData that leaves the item as s
Updated(s, op) ==
  /\ Store(s)
  /\ lastOp' = op
  /\ err' = "ok"
  /\ ret' = NoRet
  /\ draws' = 0
  /\ drawErr' = "idle"
  /\ UNCHANGED initName

\* setOpts with no keyword or with one keyword
SetOpts ==
  \/ /\ Updated(setOpts(self, Kw([key \in Keys |-> Absent])), "setOpts")
     /\ UNCHANGED renamed
  \/ \E val \in (SX \cup {None}) \ {Absent} :
       /\ Updated(setOpts(self, [x |-> val]), "setOpts")
       /\ UNCHANGED renamed
  \/ \E val \in (SY \cup {None}) \ {Absent} :
       /\ Updated(setOpts(self, [y |-> val]), "setOpts")
       /\ UNCHANGED renamed
  \/ \E val \in (SY0 \cup {None}) \ {Absent} :
       /\ Updated(setOpts(self, [y0 |-> val]), "setOpts")
       /\ UNCHANGED renamed
  \/ \E val \in (SY1 \cup {None}) \ {Absent} :
       /\ Updated(setOpts(self, [y1 |-> val]), "setOpts")
       /\ UNCHANGED renamed
  \/ \E val \in (SHeight \cup {None}) \ {Absent} :
       /\ Updated(setOpts(self, [height |-> val]), "setOpts")
       /\ UNCHANGED renamed
  \/ \E val \in (SPen \cup {None}) \ {Absent} :
       /\ Updated(setOpts(self, [pen |-> val]), "setOpts")
       /\ UNCHANGED renamed
  \/ \E val \in (SPens \cup {None}) \ {Absent} :
       /\ Updated(setOpts(self, [pens |-> val]), "setOpts")
       /\ UNCHANGED renamed
  \/ \E val \in {Str("b")} :
       /\ Updated(setOpts(self, [name |-> val]), "setOpts")
       /\ renamed' = TRUE

\* the keyword sets handed to setData
DataKw ==
  {KwOf(Absent, vx, vy, vy0, vy1, vheight, vpen, Absent) :
     vx \in SX, vy \in SY, vy0 \in SY0, vy1 \in SY1, vheight \in SHeight,
     vpen \in SPen}

SetDataCall(kargs) ==
  /\ Updated(setData(self, kargs), "setData")
  /\ UNCHANGED renamed

SetData == \E kargs \in DataKw : SetDataCall(kargs)

Next == Paint \/ Shape \/ BoundingRect \/ Name \/ SetOpts \/ SetData

Spec == Init /\ [][Next]_vars

NextDraw == Paint \/ Shape \/ BoundingRect \/ Name

SpecDraw == InitDraw /\ [][NextDraw]_vars

(***************************************************************************)
(* Properties                                                              *)
(***************************************************************************)
lines == picture.lines

\* drawPicture ran on the current options and returned normally
Drawn == ~picture.none /\ drawErr = "ok"

given(key) == opts[key].k # "none"

\* element i of a keyword value, a scalar standing for each of its elements
El(val, i) ==
  IF val.k \in {"list", "arr"}
  THEN (IF Len(val.a) = 1 THEN val.a[1] ELSE val.a[i])
  ELSE val.v

\* y - height/2 and y + height/2 (2 fixed-point units are the number 1)
Lower(i) == El(opts["y"], i) - El(opts["height"], i) \div 2
Upper(i) == El(opts["y"], i) + El(opts["height"], i) \div 2

\* C1: after drawPicture rebuilt the item, boundingCorners is
\* [min(x), min(y0), max(x), max(y1)] over the segments drawn, and
\* [0, 0, 0, 0] when x is empty.
C1_BoundingCorners ==
  Drawn =>
    boundingCorners =
      IF Len(lines) = 0 THEN ZeroCorners
      ELSE <<SeqMin([i \in DOMAIN lines |-> lines[i][1]]),
             SeqMin([i \in DOMAIN lines |-> lines[i][2]]),
             SeqMax([i \in DOMAIN lines |-> lines[i][1]]),
             SeqMax([i \in DOMAIN lines |-> lines[i][4]])>>

\* C2: after setData(**kargs) the options record is that of a fresh item
\* constructed with the same keywords.
C2_SetDataAsInit ==
  [][\A kargs \in DataKw : SetDataCall(kargs) => opts' = init(kargs).opts]_vars

\* C3: construction, setOpts and setData leave the picture None.
C3_UpdateInvalidates ==
  lastOp \in {"__init__", "setOpts", "setData"} => picture.none

C3_Witness ==
  /\ lastOp = "setOpts"
  /\ picture.none
  /\ boundingCorners # ZeroCorners

\* C4: paint and boundingRect run drawPicture exactly when the picture is
\* None, drawPicture runs at most once between two options updates, and a
\* query that returns leaves the picture non-None.
C4_LazyRebuild ==
  /\ [](draws <= 1)
  /\ [][lastOp' \in {"paint", "boundingRect"} =>
          /\ (draws' # draws) <=> picture.none
          /\ err' = "ok" => ~picture'.none]_vars

C4_Witness ==
  /\ lastOp = "paint"
  /\ err = "ok"
  /\ ret.k = "played"
  /\ Len(ret.lines) = MaxLen
  /\ draws = 1

\* only x and height are supplied, one height for each element of x
OnlyXHeight ==
  /\ opts["x"].k = "list" /\ Len(opts["x"].a) > 0
  /\ opts["height"].k = "list" /\ Len(opts["height"].a) = Len(opts["x"].a)
  /\ ~given("y") /\ ~given("y0") /\ ~given("y1")
  /\ ~given("pens")

\* C5: with only x and height, drawPicture completes and draws a line from
\* 0 to height[i] at every x[i].
C5_HeightOnly ==
  (OnlyXHeight /\ drawErr # "idle") =>
    /\ drawErr = "ok"
    /\ lines = [i \in DOMAIN opts["x"].a |->
                 <<opts["x"].a[i], 0, opts["x"].a[i], opts["height"].a[i]>>]

\* x together with (y and height), (height alone) or (y0 and y1)
HasCombination ==
  /\ given("x")
  /\ \/ given("y") /\ given("height")
     \/ given("height")
     \/ given("y0") /\ given("y1")

\* C6: drawPicture raises the 'You must specify x and one of these
\* combinations' exception exactly when the options lack x with one of the
\* combinations.
C6_MissingCombination ==
  drawErr # "idle" => (drawErr = "Exception" <=> ~HasCombination)

\* C7: name() returns the name given at initialization, as long as no
\* setOpts call passed a name keyword.
C7_NameKept ==
  (lastOp = "name" /\ ~renamed) => ret.val = initName

\* C8: a drawPicture that returns normally has drawn one vertical line for
\* each element of x, in order, from y - height/2 to y + height/2 when y and
\* height are given, and from y0 to y1 when y0 and y1 are given without
\* height.
C8_OneLinePerRow ==
  Drawn =>
    /\ Len(lines) = Len(opts["x"].a)
    /\ \A i \in DOMAIN lines :
         /\ lines[i][1] = opts["x"].a[i]
         /\ lines[i][3] = opts["x"].a[i]
         /\ (given("y") /\ given("height")) =>
              /\ lines[i][2] = Lower(i)
              /\ lines[i][4] = Upper(i)
         /\ (given("y0") /\ given("y1") /\ ~given("height")) =>
              /\ lines[i][2] = El(opts["y0"], i)
              /\ lines[i][4] = El(opts["y1"], i)

C8_Witness ==
  /\ Drawn
  /\ Len(lines) = MaxLen
  /\ opts["y"].k = "arr" /\ opts["height"].k = "list"
  /\ given("y0") /\ given("y1")

\* the point (px, py) lies in the rectangle r = <<left, top, width, height>>
Encloses(r, px, py) ==
  LET between(lo, hi, c) == (lo <= c /\ c <= hi) \/ (hi <= c /\ c <= lo)
  IN between(r[1], r[1] + r[3], px) /\ between(r[2], r[2] + r[4], py)

\* C9: the rectangle boundingRect returns encloses both ends of every line
\* drawn for the current options.
C9_RectEncloses ==
  (lastOp = "boundingRect" /\ err = "ok" /\ Drawn) =>
    \A i \in DOMAIN lines :
      /\ Encloses(ret.rect, lines[i][1], lines[i][2])
      /\ Encloses(ret.rect, lines[i][3], lines[i][4])

\* C10: whenever the picture is not None, the picture and boundingCorners
\* are those of a drawPicture run that completed on the current options.
C10_CacheCoherent ==
  ~picture.none =>
    LET r == drawPicture([self EXCEPT !.picture = NoPicture])
    IN /\ r.err = "ok"
       /\ picture = r.self.picture
       /\ boundingCorners = r.self.boundingCorners

====
